---------------------------- MODULE Spec2Model ----------------------------
(***************************************************************************)
(* useAsyncStateEffect (src/hooks/useAsyncStateEffect.jsx).                *)
(*                                                                         *)
(* One mounted instance of the hook.  The five state cells are the five    *)
(* useState cells of the hook; every setter in the source writes an        *)
(* absolute value and no callback reads a cell, so a cell holds the value  *)
(* the next render shows.                                                  *)
(*                                                                         *)
(* A call of func() is in `pending` (in start order) until the promise it  *)
(* returned settles.  The chain func().then(f).catch(g).finally(h) is run  *)
(* the way the language runs it: the settlement of func()'s promise queues *)
(* the reaction job of .then, which queues that of .catch, which queues    *)
(* that of .finally, and for refresh() the continuation of its `await`     *)
(* follows.  The jobs of all calls share one FIFO queue (`microtasks`); a  *)
(* call leaves the model when its last job has run.                        *)
(***************************************************************************)
EXTENDS Integers, Sequences, FiniteSets, TLC

VARIABLES
    value,          \* useState(initialValue)
    isLoading,      \* useState(loadingTrueAtStart)
    isError,        \* useState(false)
    error,          \* useState(null)
    isRefreshing,   \* useState(false)
    initialValue,   \* options.initialValue
    loadingTrueAtStart, \* options.loadingTrueAtStart
    mounted,        \* whether the effect of the first render has run
    deps,           \* the deps recorded by useEffect at the last pass
    started,        \* how many calls of func() the effect and refresh have made
    pending,        \* the calls of func() whose promise is unsettled, in start order
    microtasks,     \* FIFO queue of promise reaction jobs, one per settled call
    lastSettled,    \* the call whose func() promise settled most recently
    lastHandled,    \* the call whose then/catch callback ran most recently
    lastPromise     \* the promise of refresh() that settled most recently

vars == <<value, isLoading, isError, error, isRefreshing, initialValue,
          loadingTrueAtStart, mounted, deps, started, pending, microtasks,
          lastSettled, lastHandled, lastPromise>>

cells == <<value, isLoading, isError, error, isRefreshing>>

\* useAsyncAction (src/hooks/useAsyncAction.js): one mounted instance.
VARIABLES
    data,           \* useState(null)
    actionError,    \* useState(null), the hook's `error`
    actionLoading,  \* useState(false), the hook's `isLoading`
    actionRendered, \* `error` as of the last render: what the closure `run` holds
    actionStarted,  \* how many calls of run() were made
    actionRuns,     \* the runs whose fn() promise is unsettled, in start order
    actionJobs,     \* FIFO queue of the continuations of `await fn(...args)`
    actionLast      \* the run that finished most recently

actionVars == <<data, actionError, actionLoading, actionRendered, actionStarted,
                actionRuns, actionJobs, actionLast>>

\* useAsyncStatus (src/hooks/useAsyncStatus.jsx): one mounted instance.
VARIABLES
    statusLoading,  \* useState(false), the hook's `isLoading`
    statusStarted,  \* how many calls of run() were made
    statusRuns,     \* the runs whose fn() promise is unsettled, in start order
    statusJobs,     \* FIFO queue of the continuations of `await fn(...args)`
    statusLast      \* the run that finished most recently

statusVars == <<statusLoading, statusStarted, statusRuns, statusJobs, statusLast>>

\* The value handed to the catch code of both capturing hooks, for the
\* specification that compares what the two store for it.
VARIABLES thrownIn

allVars == <<vars, actionVars, statusVars, thrownIn>>

-----------------------------------------------------------------------------
(* Bounds *)

\* Calls of func() in the life of the instance
MaxCalls == 2

\* Calls of run() in the life of an instance of useAsyncAction / useAsyncStatus
MaxRuns == 2

\* The largest number thrown in the comparison of the two catch blocks
MaxNum == 20

-----------------------------------------------------------------------------
(* Values *)

\* JavaScript values a producer can resolve to or that initialValue can be.
\* "undefined" and "null" are the two nullish values; "0" is falsy, not nullish.
Nullish == {"undefined", "null"}
Results == {"null", "0", "v1"}
InitialValues == {"undefined", "v0"}

\* Values a producer can reject with: an Error, a string, a number.
Thrown ==
    { [type |-> "Error",  text |-> "E1",   num |-> 0],
      [type |-> "string", text |-> "boom", num |-> 0],
      [type |-> "number", text |-> "",     num |-> 42] }

\* The null of useState(null).
NoError == [type |-> "null", text |-> "", num |-> 0]

DepValues == {1, 2}
\* deps is an array of two values, e.g. [userId, page]
DepsIdx == {1, 2}
DepsSet == [DepsIdx -> DepValues]

DigitChar(d) ==
    CASE d = 0 -> "0" [] d = 1 -> "1" [] d = 2 -> "2" [] d = 3 -> "3"
      [] d = 4 -> "4" [] d = 5 -> "5" [] d = 6 -> "6" [] d = 7 -> "7"
      [] d = 8 -> "8" [] d = 9 -> "9"

RECURSIVE NumToString(_)
NumToString(n) ==
    IF n < 10 THEN DigitChar(n) ELSE NumToString(n \div 10) \o DigitChar(n % 10)

\* String(err) for a value that is not an Error
String(err) ==
    CASE err.type = "string" -> err.text
      [] err.type = "number" -> NumToString(err.num)
      [] OTHER -> err.type

\* new Error(message)
NewError(message) == [type |-> "Error", text |-> message, num |-> 0]


-----------------------------------------------------------------------------
(* The callbacks of the promise chain, as functions of the state cells *)

Cells ==
    [value |-> value, isLoading |-> isLoading, isError |-> isError,
     error |-> error, isRefreshing |-> isRefreshing]

SetCells(s) ==
    /\ value' = s.value
    /\ isLoading' = s.isLoading
    /\ isError' = s.isError
    /\ error' = s.error
    /\ isRefreshing' = s.isRefreshing

\* result || initialValue
Coalesce_Or(result, init) == IF result \in Nullish \cup {"0"} THEN init ELSE result

\* result ?? initialValue
Coalesce(result, init) == IF result \in Nullish THEN init ELSE result

\* if (err instanceof Error) setError(err) else setError(new Error(String(err)))
ToError(err) == IF err.type = "Error" THEN err ELSE NewError(String(err))

\* the then callback without setIsError(false)
OnFulfilled_KeepIsError(s, result, init) ==
    [s EXCEPT !.value = Coalesce(result, init), !.error = NoError]

\* the then callback without setError(null)
OnFulfilled_KeepError(s, result, init) ==
    [s EXCEPT !.value = Coalesce(result, init), !.isError = FALSE]

\* .then((result) => { setValue(result ?? initialValue); setIsError(false); setError(null) })
OnFulfilled(s, result, init) ==
    [s EXCEPT !.value = Coalesce(result, init), !.isError = FALSE, !.error = NoError]

\* the catch callback without setError
OnRejected_NoSetError(s, err) == [s EXCEPT !.isError = TRUE]

\* the catch callback also resetting the value
OnRejected_ResetValue(s, err) ==
    [s EXCEPT !.value = "null", !.isError = TRUE, !.error = ToError(err)]

\* .catch((err) => { setIsError(true); setError(...) })
OnRejected(s, err) ==
    [s EXCEPT !.isError = TRUE, !.error = ToError(err)]

\* the effect without its .finally
EffectOnFinally_Skip(s) == s

\* the effect's .finally with refresh's body
EffectOnFinally_AlsoRefreshing(s) == [s EXCEPT !.isLoading = FALSE, !.isRefreshing = FALSE]

\* .finally of the effect: setIsLoading(false)
EffectOnFinally(s) == [s EXCEPT !.isLoading = FALSE]

\* refresh's .finally without setIsRefreshing(false)
RefreshOnFinally_KeepRefreshing(s) == [s EXCEPT !.isLoading = FALSE]

\* .finally of refresh: setIsLoading(false); setIsRefreshing(false)
RefreshOnFinally(s) == [s EXCEPT !.isLoading = FALSE, !.isRefreshing = FALSE]

OnFinally(s, kind) ==
    IF kind = "refresh" THEN RefreshOnFinally(s) ELSE EffectOnFinally(s)

\* The promise .then(f) returns: fulfilled when func()'s promise fulfilled (f
\* returns normally), rejected with the same reason when it rejected.
AfterThen(ok) == IF ok THEN "fulfilled" ELSE "rejected"

\* a catch callback that throws again
AfterCatch_Rethrow(chain) == chain

\* The promise .catch(g) returns: g returns normally, so it is fulfilled
\* whether the promise before it fulfilled or rejected.
AfterCatch(chain) == "fulfilled"

\* `await p` in the async function refresh: the function returns (its promise
\* fulfils) when p fulfilled and throws (its promise rejects) when p rejected.
AfterAwait(chain) == chain

-----------------------------------------------------------------------------
(* Invocations of func() *)

NoOutcome == [ok |-> TRUE, result |-> "undefined", err |-> NoError]

Outcomes ==
    { [ok |-> TRUE, result |-> r, err |-> NoError] : r \in Results } \cup
    { [ok |-> FALSE, result |-> "undefined", err |-> e] : e \in Thrown }

\* A call of func() whose promise is unsettled: kind is who made it,
\* loadingAtInvoke the isLoading cell at the moment func() was called,
\* superseded whether another call of func() was started after it.
NewCall(kind, loadingNow) ==
    [kind |-> kind, loadingAtInvoke |-> loadingNow, superseded |-> FALSE]

\* The chain of a settled call: stage is the job of the chain that is queued,
\* chain the state of the last promise of the chain settled so far, ran the
\* callbacks of the chain that were called.
NewJob(call, o) ==
    [kind |-> call.kind, superseded |-> call.superseded, stage |-> "then",
     outcome |-> o, chain |-> "pending", ran |-> {}]

\* What is remembered of the call that settled, or was handled, most
\* recently: its kind and outcome, whether a call was started after it while
\* it was unsettled, and whether the job queue was empty when func()'s
\* promise settled (some = FALSE: no call yet).
NoCall ==
    [some |-> FALSE, kind |-> "effect", outcome |-> NoOutcome,
     superseded |-> FALSE, quiet |-> TRUE]

Remembered(kind, superseded, o, quiet) ==
    [some |-> TRUE, kind |-> kind, outcome |-> o, superseded |-> superseded,
     quiet |-> quiet]

\* The promise refresh() returned: its state, and whether func()'s promise
\* had fulfilled.
NoPromise == [status |-> "none", producerOk |-> TRUE]

\* func() called before setIsLoading(true)
EffectStart_CallFirst(s) ==
    [cells |-> [s EXCEPT !.isLoading = TRUE], call |-> NewCall("effect", s.isLoading)]

\* The body of the effect up to the call of func(): setIsLoading(true); func()
EffectStart(s) ==
    LET s1 == [s EXCEPT !.isLoading = TRUE]
    IN  [cells |-> s1, call |-> NewCall("effect", s1.isLoading)]

\* The body of refresh up to the call of func():
\* setIsRefreshing(true); setIsLoading(true); func()
RefreshStart(s) ==
    LET s1 == [s EXCEPT !.isRefreshing = TRUE, !.isLoading = TRUE]
    IN  [cells |-> s1, call |-> NewCall("refresh", s1.isLoading)]

\* only the first element of deps compared
DepsChanged_FirstOnly(prev, next) == prev[1] # next[1]

\* useEffect(..., deps): the effect runs again when an element of deps differs
DepsChanged(prev, next) == \E k \in DepsIdx : prev[k] # next[k]

TotalStarted == started.effect + started.refresh

\* pending with call c started: the calls still unsettled now have a
\* later-started call.
Started(c) ==
    Append([k \in 1..Len(pending) |-> [pending[k] EXCEPT !.superseded = TRUE]], c)

Remove(seq, i) == SubSeq(seq, 1, i - 1) \o SubSeq(seq, i + 1, Len(seq))

-----------------------------------------------------------------------------
(* The other hooks before their first run *)

\* What is remembered of a finished run of useAsyncAction (some = FALSE: none).
NoRun ==
    [some |-> FALSE, outcome |-> NoOutcome,
     returned |-> [status |-> "none", data |-> "null", error |-> NoError],
     onComplete |-> 0, onError |-> <<>>]

ActionInit ==
    /\ data = "null"
    /\ actionError = NoError
    /\ actionLoading = FALSE
    /\ actionRendered = NoError
    /\ actionStarted = 0
    /\ actionRuns = <<>>
    /\ actionJobs = <<>>
    /\ actionLast = NoRun

\* What is remembered of a finished run of useAsyncStatus (some = FALSE: none).
NoStatusRun ==
    [some |-> FALSE, outcome |-> NoOutcome,
     returned |-> [status |-> "none", payload |-> NoOutcome]]

StatusInit ==
    /\ statusLoading = FALSE
    /\ statusStarted = 0
    /\ statusRuns = <<>>
    /\ statusJobs = <<>>
    /\ statusLast = NoStatusRun

\* The instance of useAsyncStateEffect before its first render, with the
\* default options.
EffectIdle ==
    /\ initialValue = "undefined"
    /\ loadingTrueAtStart = TRUE
    /\ value = initialValue
    /\ isLoading = loadingTrueAtStart
    /\ isError = FALSE
    /\ error = NoError
    /\ isRefreshing = FALSE
    /\ mounted = FALSE
    /\ deps = [k \in DepsIdx |-> 1]
    /\ started = [effect |-> 0, refresh |-> 0]
    /\ pending = <<>>
    /\ microtasks = <<>>
    /\ lastSettled = NoCall
    /\ lastHandled = NoCall
    /\ lastPromise = NoPromise

-----------------------------------------------------------------------------
(* Actions *)

Init ==
    /\ initialValue \in InitialValues
    /\ loadingTrueAtStart \in BOOLEAN
    /\ value = initialValue
    /\ isLoading = loadingTrueAtStart
    /\ isError = FALSE
    /\ error = NoError
    /\ isRefreshing = FALSE
    /\ mounted = FALSE
    /\ deps = [k \in DepsIdx |-> 1]
    /\ started = [effect |-> 0, refresh |-> 0]
    /\ pending = <<>>
    /\ microtasks = <<>>
    /\ lastSettled = NoCall
    /\ lastHandled = NoCall
    /\ lastPromise = NoPromise
    /\ ActionInit
    /\ StatusInit
    /\ thrownIn = NoError

\* The effect of the first render: useEffect runs it unconditionally.
Mount ==
    /\ ~mounted
    /\ mounted' = TRUE
    /\ LET r == EffectStart(Cells)
       IN  /\ SetCells(r.cells)
           /\ pending' = Started(r.call)
    /\ started' = [started EXCEPT !.effect = @ + 1]
    /\ UNCHANGED <<initialValue, loadingTrueAtStart, deps, microtasks,
                   lastSettled, lastHandled, lastPromise>>
    /\ UNCHANGED <<actionVars, statusVars, thrownIn>>

\* An update pass that renders with deps = next.
Update(next) ==
    /\ mounted
    /\ deps' = next
    /\ IF DepsChanged(deps, next)
       THEN /\ TotalStarted < MaxCalls
            /\ started' = [started EXCEPT !.effect = @ + 1]
            /\ LET r == EffectStart(Cells)
               IN  /\ SetCells(r.cells)
                   /\ pending' = Started(r.call)
       ELSE UNCHANGED <<cells, pending, started>>
    /\ UNCHANGED <<initialValue, loadingTrueAtStart, mounted, microtasks,
                   lastSettled, lastHandled, lastPromise>>
    /\ UNCHANGED <<actionVars, statusVars, thrownIn>>

\* A call of refresh(), up to its await.
Refresh ==
    /\ mounted
    /\ TotalStarted < MaxCalls
    /\ started' = [started EXCEPT !.refresh = @ + 1]
    /\ LET r == RefreshStart(Cells)
       IN  /\ SetCells(r.cells)
           /\ pending' = Started(r.call)
    /\ UNCHANGED <<initialValue, loadingTrueAtStart, mounted, deps,
                   microtasks, lastSettled, lastHandled, lastPromise>>
    /\ UNCHANGED <<actionVars, statusVars, thrownIn>>

\* The promise func() returned for the i-th unsettled call settles with
\* outcome o: the reaction job of .then is queued.
Settle(i, o) ==
    /\ i \in 1..Len(pending)
    /\ pending' = Remove(pending, i)
    /\ microtasks' = Append(microtasks, NewJob(pending[i], o))
    /\ lastSettled' = Remembered(pending[i].kind, pending[i].superseded, o,
                                  microtasks = <<>>)
    /\ UNCHANGED <<cells, initialValue, loadingTrueAtStart, mounted, deps,
                   started, lastHandled, lastPromise>>
    /\ UNCHANGED <<actionVars, statusVars, thrownIn>>

Handled(j) == Remembered(j.kind, j.superseded, j.outcome, TRUE)

\* The reaction job of .then at the head of the queue: the callback runs
\* when func()'s promise fulfilled, and the rejection is passed on otherwise.
ThenJob ==
    /\ microtasks # <<>>
    /\ LET j == Head(microtasks)
       IN  /\ j.stage = "then"
           /\ IF j.outcome.ok
              THEN /\ SetCells(OnFulfilled(Cells, j.outcome.result, initialValue))
                   /\ lastHandled' = Handled(j)
              ELSE UNCHANGED <<cells, lastHandled>>
           /\ microtasks' = Append(Tail(microtasks),
                  [j EXCEPT !.stage = "catch",
                            !.chain = AfterThen(j.outcome.ok),
                            !.ran = IF j.outcome.ok THEN @ \cup {"then"} ELSE @])
    /\ UNCHANGED <<initialValue, loadingTrueAtStart, mounted, deps, started,
                   pending,
                   lastSettled, lastPromise>>
    /\ UNCHANGED <<actionVars, statusVars, thrownIn>>

\* The reaction job of .catch: the callback runs when the promise of .then
\* rejected, and the fulfilment is passed on otherwise.
CatchJob ==
    /\ microtasks # <<>>
    /\ LET j == Head(microtasks)
       IN  /\ j.stage = "catch"
           /\ IF j.chain = "rejected"
              THEN /\ SetCells(OnRejected(Cells, j.outcome.err))
                   /\ lastHandled' = Handled(j)
              ELSE UNCHANGED <<cells, lastHandled>>
           /\ microtasks' = Append(Tail(microtasks),
                  [j EXCEPT !.stage = "finally",
                            !.chain = AfterCatch(j.chain),
                            !.ran = IF j.chain = "rejected" THEN @ \cup {"catch"} ELSE @])
    /\ UNCHANGED <<initialValue, loadingTrueAtStart, mounted, deps, started,
                   pending,
                   lastSettled, lastPromise>>
    /\ UNCHANGED <<actionVars, statusVars, thrownIn>>

\* The reaction job of .finally.  The effect's chain ends here; refresh
\* awaits the promise .finally returned.
FinallyJob ==
    /\ microtasks # <<>>
    /\ LET j == Head(microtasks)
       IN  /\ j.stage = "finally"
           /\ SetCells(OnFinally(Cells, j.kind))
           /\ microtasks' =
                  IF j.kind = "refresh"
                  THEN Append(Tail(microtasks),
                           [j EXCEPT !.stage = "resume", !.ran = @ \cup {"finally"}])
                  ELSE Tail(microtasks)
    /\ UNCHANGED <<initialValue, loadingTrueAtStart, mounted, deps, started,
                   pending,
                   lastSettled, lastHandled, lastPromise>>
    /\ UNCHANGED <<actionVars, statusVars, thrownIn>>

\* refresh resumes after its await and returns: its promise settles.
ResumeJob ==
    /\ microtasks # <<>>
    /\ LET j == Head(microtasks)
       IN  /\ j.stage = "resume"
           /\ lastPromise' = [status |-> AfterAwait(j.chain),
                               producerOk |-> j.outcome.ok]
           /\ microtasks' = Tail(microtasks)
    /\ UNCHANGED <<cells, initialValue, loadingTrueAtStart, mounted, deps,
                   started, pending, lastSettled, lastHandled>>
    /\ UNCHANGED <<actionVars, statusVars, thrownIn>>

Next ==
    \/ Mount
    \/ \E next \in DepsSet : Update(next)
    \/ Refresh
    \/ \E i \in 1..Len(pending), o \in Outcomes : Settle(i, o)
    \/ ThenJob
    \/ CatchJob
    \/ FinallyJob
    \/ ResumeJob

Spec == Init /\ [][Next]_allVars

\* The flags isLoading and isRefreshing depend on whether and when a promise
\* settles, not on what it settles with: the liveness specification draws
\* the settlements from one fulfilment with a value, one with null and one
\* rejection.
LiveOutcomes ==
    { o \in Outcomes : \/ o.ok /\ o.result \in {"v1", "null"}
                       \/ ~o.ok /\ o.err.type = "string" }

LiveNext ==
    \/ Mount
    \/ \E next \in DepsSet : Update(next)
    \/ Refresh
    \/ \E i \in 1..Len(pending), o \in LiveOutcomes : Settle(i, o)
    \/ ThenJob
    \/ CatchJob
    \/ FinallyJob
    \/ ResumeJob

\* A second call of refresh() made while the first has not been awaited:
\* one call more than MaxCalls, for the runs with two refreshes overlapping.
RefreshAgain ==
    /\ mounted
    /\ started.refresh = 1
    /\ \E i \in 1..Len(pending) : pending[i].kind = "refresh"
    /\ TotalStarted < MaxCalls + 1
    /\ started' = [started EXCEPT !.refresh = @ + 1]
    /\ LET r == RefreshStart(Cells)
       IN  /\ SetCells(r.cells)
           /\ pending' = Started(r.call)
    /\ UNCHANGED <<initialValue, loadingTrueAtStart, mounted, deps,
                   microtasks, lastSettled, lastHandled, lastPromise>>
    /\ UNCHANGED <<actionVars, statusVars, thrownIn>>

RefreshTwiceNext ==
    \/ Mount
    \/ \E next \in DepsSet : Update(next)
    \/ Refresh
    \/ RefreshAgain
    \/ \E i \in 1..Len(pending), o \in Outcomes : Settle(i, o)
    \/ ThenJob
    \/ CatchJob
    \/ FinallyJob
    \/ ResumeJob

SpecRefreshTwice == Init /\ [][RefreshTwiceNext]_allVars

\* The scheduling the host gives: the effect of the first render runs, every
\* queued reaction job runs, and (the hypothesis of the liveness property)
\* every promise func() returned settles.
Fairness ==
    /\ WF_vars(Mount)
    /\ WF_vars(\E i \in 1..Len(pending), o \in LiveOutcomes : Settle(i, o))
    /\ WF_vars(ThenJob)
    /\ WF_vars(CatchJob)
    /\ WF_vars(FinallyJob)
    /\ WF_vars(ResumeJob)

SpecLive == Init /\ [][LiveNext]_allVars /\ Fairness

TypeOK ==
    /\ value \in Results \cup InitialValues
    /\ isLoading \in BOOLEAN /\ isError \in BOOLEAN /\ isRefreshing \in BOOLEAN
    /\ TotalStarted <= MaxCalls

-----------------------------------------------------------------------------
(* Vocabulary of the properties *)

\* A step that runs the job at the head of the queue (a settlement only
\* appends to the queue, a call of func() leaves it alone).
JobStep ==
    /\ microtasks # <<>>
    /\ microtasks' # microtasks
    /\ Len(microtasks') <= Len(microtasks)

\* The step runs the callback of .then / .catch / .finally of a call.
ThenCallback == JobStep /\ Head(microtasks).stage = "then" /\ Head(microtasks).outcome.ok
CatchCallback == JobStep /\ Head(microtasks).stage = "catch" /\ ~Head(microtasks).outcome.ok
FinallyCallback == JobStep /\ Head(microtasks).stage = "finally"

\* Every call made so far has settled and every job of its chain has run.
AllDone == mounted /\ pending = <<>> /\ microtasks = <<>>

\* The Error the hook is to store for a thrown value.
ExpectedError(err) ==
    CASE err.type = "Error"  -> err
      [] err.type = "string" -> [type |-> "Error", text |-> err.text, num |-> 0]
      [] err.type = "number" -> [type |-> "Error", text |-> "42", num |-> 0]

\* value/isError/error are those a settlement with outcome o writes.
WrittenBy(o) ==
    IF o.ok
    THEN /\ value = (IF o.result \in {"undefined", "null"} THEN initialValue ELSE o.result)
         /\ isError = FALSE
         /\ error = NoError
    ELSE /\ isError = TRUE
         /\ error = ExpectedError(o.err)

-----------------------------------------------------------------------------
(* C1 *)

\* C1 (as claimed): while a call of refresh() is in flight, isRefreshing and
\* isLoading are both true, whatever other fetches start or settle meanwhile.
\* Stated on the part of that interval in which func()'s promise is unsettled.
C1_RefreshFlagsHeld ==
    \A i \in 1..Len(pending) :
        pending[i].kind = "refresh" => (isRefreshing /\ isLoading)

-----------------------------------------------------------------------------
(* C2 *)

-----------------------------------------------------------------------------
(* C3 *)

\* C3 (as claimed): the callbacks of a call that settles after a later call
\* was started leave value, isError, error, isLoading, isRefreshing unchanged.
C3_StaleDiscarded ==
    [][(JobStep /\ Head(microtasks).superseded) => cells' = cells]_vars

\* C3 (amended): a call that settles after a later call was started is not
\* discarded; its callbacks write what any settlement writes: on success
\* value = result ?? initialValue, isError = false, error = null, on failure
\* isError = true and error set, and then isLoading = false (and
\* isRefreshing = false for refresh).
C3_StaleApplied ==
    [][(JobStep /\ Head(microtasks).superseded) =>
        LET j == Head(microtasks) IN
        /\ (j.stage = "then" /\ j.outcome.ok) =>
               /\ value' = (IF j.outcome.result \in {"undefined", "null"}
                            THEN initialValue ELSE j.outcome.result)
               /\ isError' = FALSE /\ error' = NoError
        /\ (j.stage = "catch" /\ ~j.outcome.ok) =>
               /\ isError' = TRUE /\ error' = ExpectedError(j.outcome.err)
        /\ j.stage = "finally" =>
               /\ isLoading' = FALSE
               /\ j.kind = "refresh" => isRefreshing' = FALSE
      ]_vars

\* The then callback of a superseded call ran last and its result is visible
\* although the later-started call had already written an error.
C3_Witness ==
    /\ AllDone
    /\ lastHandled.some /\ lastHandled.superseded
    /\ lastHandled.outcome.ok /\ lastHandled.outcome.result = "v1"
    /\ value = "v1" /\ ~isLoading

-----------------------------------------------------------------------------
(* C4 *)

\* C4: the promise refresh() returns never rejects, whether func()'s promise
\* fulfils or rejects; a failure of func() is in the state (isError, error)
\* when its catch callback has run, and refresh resumes (its promise
\* resolves) only after the callbacks of its own chain have run.
C4_RefreshNeverRejects ==
    /\ lastPromise.status # "rejected"
    /\ \A k \in 1..Len(microtasks) :
           LET j == microtasks[k] IN
           /\ j.stage = "resume" =>
                  /\ j.kind = "refresh"
                  /\ j.chain = "fulfilled"
                  /\ "finally" \in j.ran
                  /\ IF j.outcome.ok THEN "then" \in j.ran ELSE "catch" \in j.ran
           /\ (k = Len(microtasks) /\ j.stage = "finally" /\ ~j.outcome.ok) =>
                  (isError /\ error = ExpectedError(j.outcome.err))

\* func() rejected in a refresh, the promise of that refresh fulfilled, and
\* the failure is in the state.
C4_Witness ==
    /\ lastPromise.status = "fulfilled" /\ ~lastPromise.producerOk
    /\ lastHandled.kind = "refresh" /\ ~lastHandled.outcome.ok
    /\ isError /\ error # NoError /\ ~isLoading /\ ~isRefreshing

-----------------------------------------------------------------------------
(* C5 *)

\* C5: after creation, a step starts an automatic call of func() if and only
\* if it is an update pass whose deps differ in some element from the deps of
\* the previous pass, and then it starts exactly one; refresh() and the jobs
\* of settlements start no automatic call and leave the recorded deps alone.
C5_FetchIffDepsChanged ==
    [][mounted =>
        /\ (\E k \in DepsIdx : deps'[k] # deps[k]) <=>
               (started'.effect = started.effect + 1)
        /\ started'.effect \in {started.effect, started.effect + 1}
        /\ (started'.refresh # started.refresh \/ microtasks' # microtasks) =>
               (deps' = deps /\ started'.effect = started.effect)
      ]_vars

\* A second automatic call was started by a pass in which only the second
\* element of deps changed.
C5_Witness ==
    /\ started.effect = 2
    /\ deps[1] = 1 /\ deps[2] = 2

-----------------------------------------------------------------------------
(* C6 *)

\* C6: on creation exactly one automatic call of func() is made, whatever
\* loadingTrueAtStart is; before it isLoading = loadingTrueAtStart, and
\* isLoading is already true when func() is called.
C6_OneInitialFetch ==
    [][/\ ~mounted => (started.effect = 0 /\ started.refresh = 0
                       /\ isLoading = loadingTrueAtStart)
       /\ (~mounted /\ mounted') =>
              /\ started'.effect = 1 /\ started'.refresh = 0
              /\ Len(pending') = 1 /\ pending'[1].kind = "effect"
              /\ isLoading'
       /\ \A i \in 1..Len(pending') : pending'[i].loadingAtInvoke
      ]_vars

\* Created with loadingTrueAtStart = false: the one automatic call is in
\* flight and isLoading is true.
C6_Witness ==
    /\ mounted /\ ~loadingTrueAtStart
    /\ started.effect = 1 /\ started.refresh = 0
    /\ Len(pending) = 1 /\ pending[1].kind = "effect" /\ isLoading

-----------------------------------------------------------------------------
(* C7 *)

\* C7: right after the then callback of a successful settlement (effect or
\* refresh) isError is false and error is null.
C7_SuccessClearsError ==
    [][ThenCallback => (isError' = FALSE /\ error' = NoError)]_vars

\* A success was written over the failure that an overlapping call, settled
\* earlier, had recorded (that call's chain is still at its .finally).
C7_Witness ==
    /\ lastHandled.some /\ lastHandled.outcome.ok
    /\ ~isError /\ error = NoError
    /\ \E k \in 1..Len(microtasks) :
           microtasks[k].stage = "finally" /\ "catch" \in microtasks[k].ran

-----------------------------------------------------------------------------
(* C8 *)

\* C8: the jobs of a failed settlement leave value unchanged; the passed-on
\* rejection changes nothing, the catch callback changes only isError and
\* error, the finally callback only isLoading (and isRefreshing for refresh).
C8_FailureKeepsValue ==
    [][(JobStep /\ ~Head(microtasks).outcome.ok) =>
        LET j == Head(microtasks) IN
        /\ value' = value
        /\ j.stage = "then" => cells' = cells
        /\ j.stage = "catch" => (isLoading' = isLoading /\ isRefreshing' = isRefreshing)
        /\ j.stage = "finally" => (isError' = isError /\ error' = error)
        /\ j.kind = "effect" => isRefreshing' = isRefreshing
      ]_vars

\* A failure was recorded and the value fetched before it is still there.
C8_Witness ==
    /\ AllDone
    /\ lastHandled.some /\ ~lastHandled.outcome.ok
    /\ isError /\ value = "v1"

-----------------------------------------------------------------------------
(* C9 *)

\* C9: the then callback sets value to func()'s result when that is not
\* null/undefined and to initialValue when it is; with an initialValue that is
\* not null/undefined, value is never null/undefined.
C9_NullCoalescing ==
    [][/\ ThenCallback =>
              LET r == Head(microtasks).outcome.result IN
              value' = (IF r = "null" \/ r = "undefined" THEN initialValue ELSE r)
       /\ initialValue \notin {"null", "undefined"} =>
              (value \notin {"null", "undefined"} /\ value' \notin {"null", "undefined"})
      ]_vars

\* func() resolved to null after a value had been fetched, and value is the
\* configured initialValue again.
C9_Witness ==
    /\ AllDone /\ TotalStarted >= 2
    /\ initialValue = "v0"
    /\ lastHandled.some /\ lastHandled.outcome.ok /\ lastHandled.outcome.result = "null"
    /\ value = "v0"

-----------------------------------------------------------------------------
(* C10 *)

-----------------------------------------------------------------------------
(* C11 *)

\* A call of func() is in flight: its promise is unsettled, or a job of its
\* chain is still queued.
RefreshInFlight ==
    \/ \E i \in 1..Len(pending) : pending[i].kind = "refresh"
    \/ \E k \in 1..Len(microtasks) : microtasks[k].kind = "refresh"

\* C11 (as claimed): whenever a call of func() (effect or refresh) has been
\* started and its promise has not settled, isLoading is true.
C11_LoadingWhileInFlight ==
    pending # <<>> => isLoading

-----------------------------------------------------------------------------
(* C13 *)

\* C13: isRefreshing is true only while a refresh() is in flight, and neither
\* the start of an automatic fetch nor a job of its chain changes
\* isRefreshing.
C13_RefreshingOnlyDuringRefresh ==
    [][/\ isRefreshing => RefreshInFlight
       /\ isRefreshing' => RefreshInFlight'
       /\ started'.effect # started.effect => isRefreshing' = isRefreshing
       /\ (JobStep /\ Head(microtasks).kind = "effect") => isRefreshing' = isRefreshing
      ]_vars

\* isRefreshing is true while the .finally of an automatic fetch that
\* overlapped the refresh has just run.
C13_Witness ==
    /\ isRefreshing /\ ~isLoading
    /\ Len(pending) = 1 /\ pending[1].kind = "refresh"
    /\ microtasks = <<>>
    /\ lastSettled.some /\ lastSettled.kind = "effect"

-----------------------------------------------------------------------------
(* C20 *)

\* C20: when every promise func() returned settles and no further call is
\* made, the hook ends, and stays, with every chain finished and
\* isLoading = false and isRefreshing = false.
C20_EventuallyQuiescent ==
    <>[](AllDone /\ ~isLoading /\ ~isRefreshing)

\* Both an automatic fetch and a refresh ran, overlapping, and the hook is at
\* rest with both flags false.
C20_Witness ==
    /\ AllDone /\ started.effect >= 1 /\ started.refresh >= 1
    /\ lastSettled.superseded
    /\ ~isLoading /\ ~isRefreshing

-----------------------------------------------------------------------------
(* C12 *)

\* C12 (as claimed): when refresh() is called twice without awaiting the
\* first, isRefreshing stays true until both have settled: it is true while
\* the promise of either call of func() is unsettled.
C12_RefreshingUntilBothSettle ==
    (started.refresh = 2 /\ \E i \in 1..Len(pending) : pending[i].kind = "refresh")
        => isRefreshing

-----------------------------------------------------------------------------
(* useAsyncStatus *)

\* What fn can do: fulfil with a result or fail with a thrown value, which
\* may be undefined (`Promise.reject()`, `throw undefined`).
Undefined == [type |-> "undefined", text |-> "", num |-> 0]

RunThrown == Thrown \cup {Undefined}

RunOutcomes ==
    [ok : {TRUE}, result : Results, err : {NoError}]
        \cup [ok : {FALSE}, result : {"null"}, err : RunThrown]

\* run up to its await: setIsLoading(true), then fn(...args) is invoked.
StatusStart(loading) ==
    [isLoading |-> TRUE, run |-> [loadingAtInvoke |-> TRUE]]

\* The finally block.
StatusOnFinally(loading) == FALSE

StatusReturn_Captured(o) ==
    [status |-> "fulfilled", payload |-> o]

\* How run's promise settles: `return result` in the try block, no catch.
StatusReturn(o) ==
    [status |-> IF o.ok THEN "fulfilled" ELSE "rejected", payload |-> o]

StatusFinished(o) ==
    [some |-> TRUE, outcome |-> o, returned |-> StatusReturn(o)]

\* The instance of useAsyncAction before its first run is ActionInit, the
\* one of useAsyncStateEffect before its first render is EffectIdle.
StatusHookInit ==
    /\ StatusInit
    /\ ActionInit
    /\ EffectIdle
    /\ thrownIn = NoError

\* A call of run(), up to its await.
StatusRun ==
    /\ statusStarted < MaxRuns
    /\ statusStarted' = statusStarted + 1
    /\ LET r == StatusStart(statusLoading)
       IN  /\ statusLoading' = r.isLoading
           /\ statusRuns' = Append(statusRuns, r.run)
    /\ UNCHANGED <<statusJobs, statusLast>>
    /\ UNCHANGED <<vars, actionVars, thrownIn>>

\* A call of run() whose fn throws before returning a promise: the finally
\* block runs within the call.
StatusRunThrows(err) ==
    /\ statusStarted < MaxRuns
    /\ statusStarted' = statusStarted + 1
    /\ LET r == StatusStart(statusLoading)
           o == [ok |-> FALSE, result |-> "null", err |-> err]
       IN  /\ statusLoading' = StatusOnFinally(r.isLoading)
           /\ statusLast' = StatusFinished(o)
    /\ UNCHANGED <<statusRuns, statusJobs>>
    /\ UNCHANGED <<vars, actionVars, thrownIn>>

\* The promise fn returned for the i-th unsettled run settles with outcome
\* o: the continuation of the await is queued.
StatusSettle(i, o) ==
    /\ i \in 1..Len(statusRuns)
    /\ statusRuns' = Remove(statusRuns, i)
    /\ statusJobs' = Append(statusJobs, [outcome |-> o])
    /\ UNCHANGED <<statusLoading, statusStarted, statusLast>>
    /\ UNCHANGED <<vars, actionVars, thrownIn>>

\* run resumes after its await: the rest of the try block, the finally
\* block, and the settlement of run's promise.
StatusResume ==
    /\ statusJobs # <<>>
    /\ LET j == Head(statusJobs)
       IN  /\ statusLoading' = StatusOnFinally(statusLoading)
           /\ statusLast' = StatusFinished(j.outcome)
    /\ statusJobs' = Tail(statusJobs)
    /\ UNCHANGED <<statusStarted, statusRuns>>
    /\ UNCHANGED <<vars, actionVars, thrownIn>>

StatusNext ==
    \/ StatusRun
    \/ \E err \in RunThrown : StatusRunThrows(err)
    \/ \E i \in 1..Len(statusRuns), o \in RunOutcomes : StatusSettle(i, o)
    \/ StatusResume

SpecStatus == StatusHookInit /\ [][StatusNext]_allVars

\* C15: useAsyncStatus: isLoading is already true when fn is invoked; the
\* step in which an invocation's settlement is taken up sets isLoading to
\* false, on success and on failure alike; run's promise fulfils with
\* exactly fn's result when fn succeeded and rejects with exactly fn's
\* failure when it failed; and whenever every run made has settled and been
\* taken up, isLoading is false.
C15_StatusPassesThrough ==
    [][/\ \A i \in 1..Len(statusRuns') : statusRuns'[i].loadingAtInvoke
       /\ statusLast' # statusLast => ~statusLoading'
       /\ Len(statusJobs') < Len(statusJobs) =>
              /\ ~statusLoading'
              /\ statusLast'.outcome = Head(statusJobs).outcome
       /\ statusLast'.some =>
              /\ statusLast'.returned.payload = statusLast'.outcome
              /\ statusLast'.outcome.ok =>
                     statusLast'.returned.status = "fulfilled"
              /\ ~statusLast'.outcome.ok =>
                     statusLast'.returned.status = "rejected"
       /\ (statusStarted' > 0 /\ statusRuns' = <<>> /\ statusJobs' = <<>>) =>
              ~statusLoading' ]_allVars

\* Two runs one after the other, the first fulfilled and the second rejected
\* with a string, both taken up.
C15_Witness ==
    /\ statusStarted = 2
    /\ statusRuns = <<>>
    /\ statusJobs = <<>>
    /\ statusLast.returned.status = "rejected"
    /\ statusLast.outcome.err.type = "string"
    /\ ~statusLoading

-----------------------------------------------------------------------------
(* useAsyncAction *)

ActionCells == [data |-> data, error |-> actionError, isLoading |-> actionLoading]

SetActionCells(s) ==
    /\ data' = s.data
    /\ actionError' = s.error
    /\ actionLoading' = s.isLoading

\* const isError = !!error: an Error object is truthy, null is not.
ActionIsError == actionError # NoError

\* the catch block with useAsyncStateEffect's choice
ActionToError_StringForm(err) ==
    IF err.type = "Error" THEN err ELSE NewError(String(err))

\* The catch block's choice of the Error to store.
ActionToError(err) ==
    IF err.type = "Error" THEN err ELSE NewError("Unknown error occurred.")

\* run up to its await: setIsLoading(true); setError(null); then fn(...args)
\* is invoked.  The run keeps the `error` of the render that created it.
ActionStart(s, rendered) ==
    [cells |-> [s EXCEPT !.isLoading = TRUE, !.error = NoError],
     run |-> [closureError |-> rendered]]

\* The try block after the await: setData(result).
ActionOnSuccess(s, result) == [s EXCEPT !.data = result]

\* The catch block: setError(...).
ActionOnFailure(s, err) == [s EXCEPT !.error = ActionToError(err)]

\* The finally block.
ActionOnFinally(s) == [s EXCEPT !.isLoading = FALSE]

\* The state after the try / catch / finally blocks of a run with outcome o.
ActionAfter(s, o) ==
    ActionOnFinally(IF o.ok THEN ActionOnSuccess(s, o.result)
                            ELSE ActionOnFailure(s, o.err))

\* What run's promise settles with: the return statements of the try block
\* and of the catch block.
ActionReturn(o) ==
    IF o.ok
    THEN [status |-> "fulfilled", data |-> o.result, error |-> NoError]
    ELSE [status |-> "fulfilled", data |-> "null", error |-> o.err]

\* The calls of options.onComplete and options.onError a run makes:
\* options?.onComplete?.() and options?.onError?.(error).
ActionFinished(o, closureError) ==
    [some |-> TRUE, outcome |-> o, returned |-> ActionReturn(o),
     onComplete |-> IF o.ok THEN 1 ELSE 0,
     onError |-> IF o.ok THEN <<>> ELSE <<closureError>>]

ActionHookInit ==
    /\ ActionInit
    /\ StatusInit
    /\ EffectIdle
    /\ thrownIn = NoError

\* A call of run(), up to its await.
ActionRun ==
    /\ actionStarted < MaxRuns
    /\ actionStarted' = actionStarted + 1
    /\ LET r == ActionStart(ActionCells, actionRendered)
       IN  /\ SetActionCells(r.cells)
           /\ actionRuns' = Append(actionRuns, r.run)
    /\ UNCHANGED <<actionRendered, actionJobs, actionLast>>
    /\ UNCHANGED <<vars, statusVars, thrownIn>>

\* A call of run() whose fn throws before returning a promise: the catch and
\* finally blocks run within the call.
ActionRunThrows(err) ==
    /\ actionStarted < MaxRuns
    /\ actionStarted' = actionStarted + 1
    /\ LET r == ActionStart(ActionCells, actionRendered)
           o == [ok |-> FALSE, result |-> "null", err |-> err]
       IN  /\ SetActionCells(ActionAfter(r.cells, o))
           /\ actionLast' = ActionFinished(o, r.run.closureError)
    /\ UNCHANGED <<actionRendered, actionRuns, actionJobs>>
    /\ UNCHANGED <<vars, statusVars, thrownIn>>

\* The promise fn returned for the i-th unsettled run settles with outcome
\* o: the continuation of the await is queued.
ActionSettle(i, o) ==
    /\ i \in 1..Len(actionRuns)
    /\ actionRuns' = Remove(actionRuns, i)
    /\ actionJobs' = Append(actionJobs,
                         [outcome |-> o,
                          closureError |-> actionRuns[i].closureError])
    /\ UNCHANGED <<data, actionError, actionLoading, actionRendered,
                   actionStarted, actionLast>>
    /\ UNCHANGED <<vars, statusVars, thrownIn>>

\* run resumes after its await: the rest of the try block or the catch
\* block, the finally block, and the settlement of run's promise.
ActionResume ==
    /\ actionJobs # <<>>
    /\ LET j == Head(actionJobs)
       IN  /\ SetActionCells(ActionAfter(ActionCells, j.outcome))
           /\ actionLast' = ActionFinished(j.outcome, j.closureError)
    /\ actionJobs' = Tail(actionJobs)
    /\ UNCHANGED <<actionRendered, actionStarted, actionRuns>>
    /\ UNCHANGED <<vars, statusVars, thrownIn>>

\* The component renders again after a state change: the hook returns a new
\* run, whose closure holds the current error.
ActionRender ==
    /\ actionRendered # actionError
    /\ actionRendered' = actionError
    /\ UNCHANGED <<data, actionError, actionLoading, actionStarted,
                   actionRuns, actionJobs, actionLast>>
    /\ UNCHANGED <<vars, statusVars, thrownIn>>

ActionNext ==
    \/ ActionRun
    \/ \E err \in RunThrown : ActionRunThrows(err)
    \/ \E i \in 1..Len(actionRuns), o \in RunOutcomes : ActionSettle(i, o)
    \/ ActionResume
    \/ ActionRender

SpecAction == ActionHookInit /\ [][ActionNext]_allVars

\* Every run made has settled and its continuation has run.
ActionAllDone == actionLast.some /\ actionRuns = <<>> /\ actionJobs = <<>>

\* C16: useAsyncAction: run's promise never rejects; when fn succeeded with
\* r it resolves to {data: r, error: null}; when fn failed it resolves to a
\* pair with data = null and a non-null error; and once run has resolved
\* with no other run in flight, isLoading is false.
C16_RunResolvesToPair ==
    actionLast.some =>
        /\ actionLast.returned.status = "fulfilled"
        /\ actionLast.outcome.ok =>
               /\ actionLast.returned.data = actionLast.outcome.result
               /\ actionLast.returned.error = NoError
        /\ ~actionLast.outcome.ok =>
               /\ actionLast.returned.data = "null"
               /\ actionLast.returned.error.type \notin {"null", "undefined"}
        /\ (actionRuns = <<>> /\ actionJobs = <<>>) => ~actionLoading

\* C17: useAsyncAction: data is null while no run has finished, and in
\* every state where isError is true (the most recent run failed) data is
\* null, also when an earlier run had succeeded.
C17_DataNullOnError ==
    /\ ~actionLast.some => data = "null"
    /\ ActionIsError => data = "null"

\* C18: useAsyncAction: a run whose fn failed has called onError exactly
\* once, with the error of that failure (the thrown value, or the Error
\* stored for it), and has not called onComplete; a run whose fn succeeded
\* has called onComplete exactly once and has not called onError.
C18_CallbacksGetTheirError ==
    actionLast.some =>
        IF actionLast.outcome.ok
        THEN actionLast.onComplete = 1 /\ actionLast.onError = <<>>
        ELSE /\ actionLast.onComplete = 0
             /\ Len(actionLast.onError) = 1
             /\ actionLast.onError[1] \in
                    {actionLast.outcome.err, ActionToError(actionLast.outcome.err)}

\* C19: useAsyncAction: isLoading is true in every state where a run is
\* unsettled; once every run made has settled isLoading is false and the
\* snapshot mirrors the run that settled last: data = r, error = null and
\* isError = false when it succeeded with r, error non-null and isError =
\* true when it failed.
C19_SnapshotMirrorsLastRun ==
    /\ actionRuns # <<>> => actionLoading
    /\ ActionAllDone =>
           /\ ~actionLoading
           /\ IF actionLast.outcome.ok
              THEN /\ data = actionLast.outcome.result
                   /\ actionError = NoError
                   /\ ~ActionIsError
              ELSE /\ actionError # NoError
                   /\ ActionIsError

-----------------------------------------------------------------------------
(* The catch code of the two capturing hooks, applied to one thrown value *)

CoerceInputs ==
    { [type |-> "Error", text |-> m, num |-> 0] :
          m \in {"E1", "boom", ""} }
        \cup { [type |-> "string", text |-> s, num |-> 0] :
                   s \in {"boom", "", "Unknown error occurred."} }
        \cup { [type |-> "number", text |-> "", num |-> n] : n \in 0..MaxNum }
        \cup { Undefined, NoError }

CoerceInit ==
    /\ thrownIn \in CoerceInputs
    /\ EffectIdle
    /\ ActionInit
    /\ StatusInit

\* useAsyncStateEffect's .catch callback runs with the thrown value.
CoerceStateEffect ==
    /\ ~isError
    /\ SetCells(OnRejected(Cells, thrownIn))
    /\ UNCHANGED <<initialValue, loadingTrueAtStart, mounted, deps, started,
                   pending, microtasks, lastSettled, lastHandled, lastPromise>>
    /\ UNCHANGED <<actionVars, statusVars, thrownIn>>

\* useAsyncAction's catch block runs with the thrown value.
CoerceAction ==
    /\ ~ActionIsError
    /\ SetActionCells(ActionOnFailure(ActionCells, thrownIn))
    /\ UNCHANGED <<actionRendered, actionStarted, actionRuns, actionJobs,
                   actionLast>>
    /\ UNCHANGED <<vars, statusVars, thrownIn>>

CoerceNext ==
    \/ CoerceStateEffect
    \/ CoerceAction

SpecCoerce == CoerceInit /\ [][CoerceNext]_allVars

\* The decimal numerals of 0, 1, 2, ...
Numerals ==
    << "0", "1", "2", "3", "4", "5", "6", "7", "8", "9", "10", "11", "12",
       "13", "14", "15", "16", "17", "18", "19", "20", "21", "22", "23" >>

\* The string form of a thrown value that is not an Error.
StringForm(v) ==
    CASE v.type = "string"    -> v.text
      [] v.type = "number"    -> Numerals[v.num + 1]
      [] v.type = "undefined" -> "undefined"
      [] v.type = "null"      -> "null"

\* An Error object with the given message.
ErrorWith(message) == [type |-> "Error", text |-> message, num |-> 0]

\* C14 as stated: in both capturing hooks, a thrown Error is stored as it
\* is, and a thrown value that is not an Error is stored as an Error whose
\* message is the string form of the thrown value.
C14_BothKeepStringForm ==
    LET expected == IF thrownIn.type = "Error" THEN thrownIn
                    ELSE ErrorWith(StringForm(thrownIn))
    IN  /\ isError => error = expected
        /\ ActionIsError => actionError = expected

\* C14 amended: in both capturing hooks a thrown Error is stored as it is;
\* for a thrown value that is not an Error, useAsyncStateEffect stores an
\* Error whose message is the string form of the thrown value, and
\* useAsyncAction stores an Error whose message is "Unknown error
\* occurred.", whatever was thrown.
C14_StringFormInStateEffectOnly ==
    /\ isError =>
           error = IF thrownIn.type = "Error" THEN thrownIn
                   ELSE ErrorWith(StringForm(thrownIn))
    /\ ActionIsError =>
           actionError = IF thrownIn.type = "Error" THEN thrownIn
                         ELSE ErrorWith("Unknown error occurred.")

\* Both hooks have handled a failure with the string "boom".
C14_Witness ==
    /\ thrownIn = [type |-> "string", text |-> "boom", num |-> 0]
    /\ isError
    /\ ActionIsError
    /\ error.text = "boom"
    /\ actionError.text # "boom"

=============================================================================
